---- MODULE Spec2Model ----
(***************************************************************************)
(* Session layer of the vehicle telemetry admin client                     *)
(* (src/admin/admin_client.py, class TelemetryInterface).                  *)
(*                                                                         *)
(* Text is modelled at character level: a Python str is a sequence of      *)
(* one-character strings, the bytes read from the socket are a sequence of *)
(* byte tokens (an ASCII byte is its character, a two-byte UTF-8 character *)
(* is the pair of tokens LeadByte, ContByte).                              *)
(*                                                                         *)
(* Threads: the Tk main thread runs connect(), disconnect(),               *)
(* send_command() and every callback posted with after(0, ...), one at a   *)
(* time; each successful connect() starts one receive_loop thread.         *)
(***************************************************************************)
EXTENDS Integers, Sequences, FiniteSets, TLC

(***************************************************************************)
(* Bounds of the model.                                                    *)
(***************************************************************************)
MaxConnects == 2      \* sockets the caller's connect() calls may create
MaxSends == 1         \* commands the caller may write on one connection
MaxStreamConnects == 1   \* connections when reads cut the stream anywhere

Sockets == 1..MaxConnects
Threads == 1..MaxConnects
NoSocket == 0         \* self.server_socket = None

(***************************************************************************)
(* Python str / bytes helpers.                                             *)
(***************************************************************************)
NL == "\n"
LeadByte == "C3"      \* first byte of a two-byte UTF-8 character
ContByte == "A9"      \* its continuation byte
WideChar == "U+00E9"  \* the character the two bytes decode to
Whitespace == {" ", "\t", "\r", NL}

Min(a, b) == IF a < b THEN a ELSE b

Tail2(s) == SubSeq(s, 3, Len(s))

\* bytes.decode(): strict UTF-8; a truncated or stray multi-byte sequence
\* raises UnicodeDecodeError.
RECURSIVE DecodeOk(_)
DecodeOk(bs) ==
    IF bs = <<>> THEN TRUE
    ELSE IF bs[1] = LeadByte
         THEN Len(bs) >= 2 /\ bs[2] = ContByte /\ DecodeOk(Tail2(bs))
    ELSE IF bs[1] = ContByte THEN FALSE
    ELSE DecodeOk(Tail(bs))

RECURSIVE Decode(_)
Decode(bs) ==
    IF bs = <<>> THEN <<>>
    ELSE IF bs[1] = LeadByte THEN <<WideChar>> \o Decode(Tail2(bs))
    ELSE <<bs[1]>> \o Decode(Tail(bs))

\* pat occurs in s at position i
MatchAt(s, pat, i) ==
    /\ i >= 1
    /\ i + Len(pat) - 1 <= Len(s)
    /\ SubSeq(s, i, i + Len(pat) - 1) = pat

\* str.find + 1: the first position of pat in s, 0 when absent
Find(s, pat) ==
    IF \E i \in 1..Len(s) : MatchAt(s, pat, i)
    THEN CHOOSE i \in 1..Len(s) :
            MatchAt(s, pat, i) /\ \A j \in 1..(i - 1) : ~MatchAt(s, pat, j)
    ELSE 0

\* `pat in s`
Contains(s, pat) == Find(s, pat) # 0

\* s.replace(pat, ""): every non-overlapping occurrence, left to right
RECURSIVE Remove(_, _)
Remove(s, pat) ==
    LET i == Find(s, pat) IN
    IF i = 0 THEN s
    ELSE SubSeq(s, 1, i - 1) \o Remove(SubSeq(s, i + Len(pat), Len(s)), pat)

\* s.split(c): the segments between the occurrences of the character c
RECURSIVE Split(_, _)
Split(s, c) ==
    LET i == Find(s, <<c>>) IN
    IF i = 0 THEN <<s>>
    ELSE <<SubSeq(s, 1, i - 1)>> \o Split(SubSeq(s, i + 1, Len(s)), c)

\* s.split(c, 1): <<before, after>> the first c (only used when c is in s)
Split1(s, c) ==
    LET i == Find(s, <<c>>) IN
    <<SubSeq(s, 1, i - 1), SubSeq(s, i + 1, Len(s))>>

\* s.strip(chars): drop the characters of the set from both ends
RECURSIVE LStrip(_, _)
LStrip(s, chars) ==
    IF s # <<>> /\ s[1] \in chars THEN LStrip(Tail(s), chars) ELSE s

RECURSIVE RStrip(_, _)
RStrip(s, chars) ==
    IF s # <<>> /\ s[Len(s)] \in chars
    THEN RStrip(SubSeq(s, 1, Len(s) - 1), chars) ELSE s

Strip(s, chars) == RStrip(LStrip(s, chars), chars)

(***************************************************************************)
(* Text constants of the program.                                          *)
(***************************************************************************)
\* "TLM " (line 167), 'TLM' (line 165), 'dir' (line 181), 'speed' (line 186)
TlmPrefix == <<"T", "L", "M", " ">>
TlmMarker == <<"T", "L", "M">>
DirMarker == <<"d", "i", "r">>
SpeedMarker == <<"s", "p", "e", "e", "d">>
\* the keys read from a telemetry line (lines 171-175)
KeySpeed == <<"s", "p", "e", "e", "d">>
KeyBattery == <<"b", "a", "t", "t", "e", "r", "y">>
KeyTs == <<"t", "s">>
KeyTemp == <<"t", "e", "m", "p">>
KeyDir == <<"d", "i", "r">>
\* the defaults of telemetry.get (lines 171-175) and of __init__ (lines 27-33)
DefaultNumber == <<"0", ".", "0">>
DefaultDirection == <<"N">>
\* datetime.now().strftime("%H:%M:%S"): the clock is abstracted to one text
NowText == <<"n", "o", "w">>
\* the character set of line.strip("OK ") (lines 182, 187)
OkChars == {"O", "K", " "}
\* the payloads written by connect (line 76) and disconnect (line 114)
AuthLine == <<"A", "U", "T", "H", " ", "a", "d", "m", "i", "n", " ", "a", "d", "m", "i", "n", "1", "2", "3", NL>>
QuitLine == <<"Q", "U", "I", "T", NL>>

(***************************************************************************)
(* Processing of one received line (receive_loop, lines 163-193).          *)
(***************************************************************************)
\* [x.split("=") for x in telemetry_str.split(";")]  (lines 167-168)
TelemetryPairs(line) ==
    LET segs == Split(Remove(line, TlmPrefix), ";")
    IN  [i \in 1..Len(segs) |-> Split(segs[i], "=")]

\* dict(pairs) raises ValueError unless every element has exactly two items
DictOk(pairs) == \A i \in 1..Len(pairs) : Len(pairs[i]) = 2

\* dict(pairs).get(key, default): the last pair with that key wins
DictGet(pairs, key, default) ==
    LET hits == {i \in 1..Len(pairs) : pairs[i][1] = key}
    IN  IF hits = {} THEN default
        ELSE pairs[CHOOSE i \in hits : \A j \in hits : j <= i][2]

\* the chain of lines 165-191 with the tests of lines 181 and 186 swapped
Classify_speed_first(line) ==
    IF line = <<>> THEN "empty"
    ELSE IF Contains(line, TlmMarker) THEN "telemetry"
    ELSE IF Contains(line, SpeedMarker) THEN "speed"
    ELSE IF Contains(line, DirMarker) THEN "dir"
    ELSE "log"

\* the chain of lines 165-191 without the branch of lines 191-193
Classify_drops_log(line) ==
    IF line = <<>> THEN "empty"
    ELSE IF Contains(line, TlmMarker) THEN "telemetry"
    ELSE IF Contains(line, DirMarker) THEN "dir"
    ELSE IF Contains(line, SpeedMarker) THEN "speed"
    ELSE "empty"

\* the classification chain of lines 165, 181, 186, 191
Classify(line) ==
    IF line = <<>> THEN "empty"
    ELSE IF Contains(line, TlmMarker) THEN "telemetry"
    ELSE IF Contains(line, DirMarker) THEN "dir"
    ELSE IF Contains(line, SpeedMarker) THEN "speed"
    ELSE "log"

\* line.strip("OK ").split("=")  (lines 182, 187); [1] raises IndexError
\* when the list has one element
AckParts(line) == Split(Strip(line, OkChars), "=")
AckOk(line) == Len(AckParts(line)) >= 2
AckValue(line) == AckParts(line)[2]

\* the snapshot after a whole telemetry line (lines 171-175)
TelemetryFields == <<"speed", "battery", "time", "temperature", "direction">>
\* the key read for each field (lines 171-175)
KeyOfField(field) ==
    CASE field = "speed" -> KeySpeed
      [] field = "battery" -> KeyBattery
      [] field = "time" -> KeyTs
      [] field = "temperature" -> KeyTemp
      [] field = "direction" -> KeyDir

TelemetryValue(pairs, field) ==
    CASE field = "speed" -> DictGet(pairs, KeySpeed, DefaultNumber)
      [] field = "battery" -> DictGet(pairs, KeyBattery, DefaultNumber)
      [] field = "time" -> DictGet(pairs, KeyTs, NowText)
      [] field = "temperature" -> DictGet(pairs, KeyTemp, DefaultNumber)
      [] field = "direction" -> DictGet(pairs, KeyDir, DefaultDirection)

\* self.telemetry_data after __init__ (lines 27-33)
InitialTelemetry ==
    [direction |-> DefaultDirection, speed |-> DefaultNumber,
     battery |-> DefaultNumber, temperature |-> DefaultNumber, time |-> NowText]

\* the lines completed by buffer += data; while '\n' in buffer: split (158-163)
RECURSIVE BufferLines(_)
BufferLines(buf) ==
    IF Contains(buf, <<NL>>)
    THEN <<Strip(Split1(buf, NL)[1], Whitespace)>> \o BufferLines(Split1(buf, NL)[2])
    ELSE <<>>



(***************************************************************************)
(* The peer: the byte stream the server sends on a connection, and the     *)
(* commands the caller issues.                                             *)
(***************************************************************************)
\* "TLM dir=S\nTLM temp=9\n"
ScriptTwoTelemetry == <<"T", "L", "M", " ", "d", "i", "r", "=", "S", NL, "T", "L", "M", " ", "t", "e", "m", "p", "=", "9", NL>>
\* "TLM speed=10;garbage;dir=S\n"
ScriptMalformedPair == <<"T", "L", "M", " ", "s", "p", "e", "e", "d", "=", "1", "0", ";", "g", "a", "r", "b", "a", "g", "e", ";", "d", "i", "r", "=", "S", NL>>
\* "hello\nOK dir=E\n"
ScriptLogThenAck == <<"h", "e", "l", "l", "o", NL, "O", "K", " ", "d", "i", "r", "=", "E", NL>>
\* "e-acute\n" as UTF-8: C3 A9 0A
ScriptWideChar == <<LeadByte, ContByte, NL>>

\* "OK speed=5\nspeed dir=W\n"
ScriptAcks ==
    <<"O", "K", " ", "s", "p", "e", "e", "d", "=", "5", NL,
      "s", "p", "e", "e", "d", " ", "d", "i", "r", "=", "W", NL>>

\* "TLM dir=S\n"
ScriptOneTelemetry == <<"T", "L", "M", " ", "d", "i", "r", "=", "S", NL>>

\* a script lists what the server sends on the first, second, ... connection;
\* it sends nothing on the connections after the listed ones
Scripts ==
    {<<ScriptTwoTelemetry>>, <<ScriptMalformedPair>>, <<ScriptLogThenAck>>,
     <<ScriptWideChar>>, <<ScriptAcks>>}

SessionScripts == {<<ScriptOneTelemetry, <<>>>>, <<<<>>, ScriptOneTelemetry>>}

ScriptOf(scr, s) == IF s <= Len(scr) THEN scr[s] ELSE <<>>

\* "TURN LEFT" (change_direction, line 544)
CmdTurnLeft == <<"T", "U", "R", "N", " ", "L", "E", "F", "T">>
\* "SPEED UP\n": a message that already ends in a newline (line 48)
CmdSpeedUpLine == <<"S", "P", "E", "E", "D", " ", "U", "P", NL>>
Commands == {CmdTurnLeft, CmdSpeedUpLine}

\* socket.recv(1024) (line 150)
RecvSize == 1024

(***************************************************************************)
(* State.                                                                  *)
(***************************************************************************)
VARIABLES
    server_socket,   \* self.server_socket: NoSocket or the socket's id
    is_connected,    \* self.is_connected
    should_receive,  \* self.should_receive
    telemetry_data,  \* self.telemetry_data
    after_queue,     \* callbacks posted with self.after(0, ...), in order
    main,            \* the main thread: [pc, ret]
    shown,           \* update_telemetry_display on the main thread: fields read
    rx,              \* the receive_loop threads: [pc, sock, buffer, line, telemetry, n, exc]
    sock_state,      \* each socket: "unused", "created", "connected", "closed"
    wire,            \* each socket: bytes the peer sent that are not yet read
    sent,            \* each socket: the payloads written to it, in order
    close_count,     \* each socket: number of close() calls executed on it
    ui,              \* effects on the display (log box, labels), in order
    committed,       \* snapshots telemetry_data held after a whole line was applied
    last_log,        \* the line the main thread's last step logged ("none": nothing)
    budget,          \* what the caller may do: [connect, send, commands]
    chunking,        \* how recv cuts the stream: "any" or "whole"
    send_result,     \* what send_command returned in the main thread's last step
    script           \* the byte streams the server sends, one per connection

vars == <<server_socket, is_connected, should_receive, telemetry_data,
          after_queue, main, shown, rx, sock_state, wire, sent, close_count,
          ui, last_log, committed, budget, chunking, send_result, script>>

netvars == <<sock_state, wire, sent, close_count>>
\* the caller's budget, the chunking and the server's script never change
envvars == <<budget, chunking, script>>

\* a posted callback; t, n name the receive thread and line it comes from
Callback(fn, t, n, msg) == [fn |-> fn, t |-> t, n |-> n, msg |-> msg]

\* an effect on the display: by is "main" or "receive", the thread that made it;
\* op is "log" (msg a program text), "server" (msg a received line) or
\* "display" (msg the snapshot shown); t, n name the line it comes from
Effect(by, op, msg, t, n) == [by |-> by, op |-> op, msg |-> msg, t |-> t, n |-> n]

\* log_command(message) (lines 528-532) called by connect, disconnect or
\* send_command: last_log is the line the main thread's last step logged
log_command(message) == last_log' = message
\* a step of the main thread that logs nothing
NoLog == last_log' = "none"
\* a step of the main thread in which send_command does not return
NoResult == send_result' = "none"

\* the main thread between two callbacks
MainIdle == [pc |-> "idle", ret |-> "idle", t |-> 0, n |-> 0]

IdleThread ==
    [pc |-> "unborn", sock |-> NoSocket, buffer |-> <<>>, line |-> <<>>,
     telemetry |-> <<>>, n |-> 0, exc |-> "none"]

\* the state after __init__ (lines 8-39)
Constructed ==
    /\ server_socket = NoSocket
    /\ is_connected = FALSE
    /\ should_receive = FALSE
    /\ telemetry_data = InitialTelemetry
    /\ after_queue = <<>>
    /\ main = MainIdle
    /\ shown = InitialTelemetry
    /\ rx = [t \in Threads |-> IdleThread]
    /\ sock_state = [s \in Sockets |-> "unused"]
    /\ wire = [s \in Sockets |-> <<>>]
    /\ sent = [s \in Sockets |-> <<>>]
    /\ close_count = [s \in Sockets |-> 0]
    /\ ui = <<>>
    /\ committed = {InitialTelemetry}
    /\ last_log = "none"
    /\ send_result = "none"

\* two connections in a row; every recv returns all the bytes that arrived
Init ==
    /\ Constructed
    /\ budget = [connect |-> MaxConnects, send |-> MaxSends,
                 commands |-> {CmdTurnLeft}]
    /\ chunking = "whole"
    /\ script \in SessionScripts

\* the caller's budget in such a session
OneConnection ==
    [connect |-> MaxStreamConnects, send |-> MaxSends, commands |-> Commands]

\* one connection; recv cuts the stream at any byte
InitStream ==
    /\ Constructed
    /\ budget = OneConnection
    /\ chunking = "any"
    /\ script \in Scripts

(***************************************************************************)
(* cleanup_socket (lines 130-137).                                         *)
(***************************************************************************)
\* cleanup_socket that neither closes the socket nor clears the handle
cleanup_socket_leaks == UNCHANGED <<sock_state, close_count, server_socket>>

\* cleanup_socket (lines 130-137)
cleanup_socket ==
    IF server_socket # NoSocket
    THEN /\ sock_state' = [sock_state EXCEPT ![server_socket] = "closed"]
         /\ close_count' = [close_count EXCEPT ![server_socket] = @ + 1]
         /\ server_socket' = NoSocket
    ELSE UNCHANGED <<sock_state, close_count, server_socket>>

(***************************************************************************)
(* connect (lines 58-98), on the main thread.                              *)
(***************************************************************************)
NextSocket == Cardinality({s \in Sockets : sock_state[s] # "unused"}) + 1

\* lines 60-69: the guard, socket.socket(), settimeout, the first log
connect ==
    /\ main.pc = "idle"
    /\ NoResult
    /\ UNCHANGED <<is_connected, should_receive, telemetry_data, after_queue,
                   shown, rx, wire, sent, close_count, ui, committed>>
    /\ IF is_connected
       THEN /\ log_command("Already connected to server")
            /\ UNCHANGED <<server_socket, sock_state, main>>
       ELSE \/ /\ NextSocket <= budget.connect
               /\ server_socket' = NextSocket
               /\ sock_state' = [sock_state EXCEPT ![NextSocket] = "created"]
               /\ log_command("Connecting")
               /\ main' = [main EXCEPT !.pc = "c_connect"]
            \/ \* socket.socket() raises: except Exception (lines 96-98),
               \* cleanup_socket finds no handle
               /\ log_command("ERROR connecting")
               /\ UNCHANGED <<server_socket, sock_state, main>>
    /\ UNCHANGED envvars

\* line 70 and the handlers of lines 90-98
connect_socket ==
    /\ main.pc = "c_connect"
    /\ NoResult
    /\ UNCHANGED <<is_connected, should_receive, telemetry_data, after_queue,
                   shown, rx, sent, ui, committed>>
    /\ \/ /\ sock_state' = [sock_state EXCEPT ![server_socket] = "connected"]
          /\ wire' = [wire EXCEPT ![server_socket] = ScriptOf(script, server_socket)]
          /\ main' = [main EXCEPT !.pc = "c_auth"]
          /\ NoLog
          /\ UNCHANGED <<server_socket, close_count>>
       \/ \E err \in {"ERROR: Connection timeout", "ERROR: Connection refused",
                      "ERROR connecting"} :
            /\ log_command(err)
            /\ cleanup_socket
            /\ main' = [main EXCEPT !.pc = "idle"]
            /\ UNCHANGED wire
    /\ UNCHANGED envvars

\* connect whose line 76 writes nothing and goes on to line 80
connect_auth_skips_write ==
    /\ main.pc = "c_auth"
    /\ main' = [main EXCEPT !.pc = "c_set"]
    /\ NoLog
    /\ NoResult
    /\ UNCHANGED <<server_socket, is_connected, should_receive, telemetry_data,
                   after_queue, shown, rx, netvars, ui, committed>>
    /\ UNCHANGED envvars

\* line 76 and the handler of lines 96-98
connect_auth ==
    /\ main.pc = "c_auth"
    /\ NoResult
    /\ UNCHANGED <<is_connected, should_receive, telemetry_data, after_queue,
                   shown, rx, wire, ui, committed>>
    /\ \/ /\ sent' = [sent EXCEPT ![server_socket] = Append(@, AuthLine)]
          /\ main' = [main EXCEPT !.pc = "c_set"]
          /\ NoLog
          /\ UNCHANGED <<server_socket, sock_state, close_count>>
       \/ /\ log_command("ERROR connecting")
          /\ cleanup_socket
          /\ main' = [main EXCEPT !.pc = "idle"]
          /\ UNCHANGED sent
    /\ UNCHANGED envvars

\* lines 80-85
connect_state ==
    /\ main.pc = "c_set"
    /\ is_connected' = TRUE
    /\ log_command("Successfully connected to server")
    /\ main' = [main EXCEPT !.pc = "c_start"]
    /\ NoResult
    /\ UNCHANGED <<server_socket, should_receive, telemetry_data,
                   after_queue, shown, rx, netvars, ui, committed>>
    /\ UNCHANGED envvars

\* start_receive_thread without line 141: the thread is started, the flag
\* is left as it was
start_receive_thread_keeps_flag ==
    /\ main.pc = "c_start"
    /\ rx' = [rx EXCEPT ![server_socket] = [IdleThread EXCEPT !.pc = "while"]]
    /\ main' = [main EXCEPT !.pc = "idle"]
    /\ NoLog
    /\ NoResult
    /\ UNCHANGED <<server_socket, is_connected, should_receive, telemetry_data,
                   after_queue, shown, netvars, ui, committed>>
    /\ UNCHANGED envvars

\* start_receive_thread (lines 139-143); the thread of the n-th socket is n
start_receive_thread ==
    /\ main.pc = "c_start"
    /\ should_receive' = TRUE
    /\ rx' = [rx EXCEPT ![server_socket] = [IdleThread EXCEPT !.pc = "while"]]
    /\ main' = [main EXCEPT !.pc = "idle"]
    /\ NoLog
    /\ NoResult
    /\ UNCHANGED <<server_socket, is_connected, telemetry_data, after_queue,
                   shown, netvars, ui, committed>>
    /\ UNCHANGED envvars

(***************************************************************************)
(* disconnect (lines 100-128), on the main thread.                         *)
(***************************************************************************)
\* return from disconnect to its caller: the event loop or send_command,
\* which then returns False (line 56)
disconnect_return(ret) ==
    /\ main' = MainIdle
    /\ send_result' = IF ret = "send" THEN "False" ELSE "none"

\* lines 102-109 without line 109: the flag is left set
disconnect_begin_keeps_flag(ret) ==
    IF ~is_connected
    THEN /\ log_command("Already disconnected")
         /\ disconnect_return(ret)
         /\ UNCHANGED should_receive
    ELSE /\ log_command("Disconnecting from server")
         /\ UNCHANGED should_receive
         /\ main' = [MainIdle EXCEPT !.pc = "d_quit", !.ret = ret]
         /\ NoResult

\* lines 102-109: the guard, the first log, the flag
disconnect_begin(ret) ==
    IF ~is_connected
    THEN /\ log_command("Already disconnected")
         /\ disconnect_return(ret)
         /\ UNCHANGED should_receive
    ELSE /\ log_command("Disconnecting from server")
         /\ should_receive' = FALSE
         /\ main' = [MainIdle EXCEPT !.pc = "d_quit", !.ret = ret]
         /\ NoResult

\* disconnect() called by the caller (the DISCONNECT button, line 447)
disconnect ==
    /\ main.pc = "idle"
    /\ disconnect_begin("idle")
    /\ UNCHANGED <<server_socket, is_connected, telemetry_data, after_queue,
                   shown, rx, netvars, ui, committed>>
    /\ UNCHANGED envvars

\* lines 112-117: best-effort QUIT; a failed write is ignored
disconnect_quit ==
    /\ main.pc = "d_quit"
    /\ main' = [main EXCEPT !.pc = "d_close"]
    /\ \/ /\ server_socket # NoSocket
          /\ sock_state[server_socket] = "connected"
          /\ sent' = [sent EXCEPT ![server_socket] = Append(@, QuitLine)]
       \/ UNCHANGED sent
    /\ NoLog
    /\ NoResult
    /\ UNCHANGED <<server_socket, is_connected, should_receive,
                   telemetry_data, after_queue, shown, rx, sock_state, wire,
                   close_count, ui, committed>>
    /\ UNCHANGED envvars

\* line 120
disconnect_cleanup ==
    /\ main.pc = "d_close"
    /\ cleanup_socket
    /\ main' = [main EXCEPT !.pc = "d_state"]
    /\ NoLog
    /\ NoResult
    /\ UNCHANGED <<is_connected, should_receive, telemetry_data, after_queue,
                   shown, rx, wire, sent, ui, committed>>
    /\ UNCHANGED envvars

\* disconnect without line 123: the state is left Connected
disconnect_state_keeps_connected ==
    /\ main.pc = "d_state"
    /\ log_command("Disconnected from server")
    /\ disconnect_return(main.ret)
    /\ UNCHANGED <<server_socket, is_connected, should_receive, telemetry_data,
                   after_queue, shown, rx, netvars, ui, committed>>
    /\ UNCHANGED envvars

\* lines 123-128
disconnect_state ==
    /\ main.pc = "d_state"
    /\ is_connected' = FALSE
    /\ log_command("Disconnected from server")
    /\ disconnect_return(main.ret)
    /\ UNCHANGED <<server_socket, should_receive, telemetry_data, after_queue,
                   shown, rx, netvars, ui, committed>>
    /\ UNCHANGED envvars

(***************************************************************************)
(* send_command (lines 41-56), on the main thread.                         *)
(***************************************************************************)
\* lines 48-49 without the test of line 48: a newline is always appended
Framed_always_appends(message) == Append(message, NL)

\* lines 48-49
Framed(message) ==
    IF message # <<>> /\ message[Len(message)] = NL
    THEN message ELSE Append(message, NL)

\* the guard of line 43
send_refused == ~is_connected \/ server_socket = NoSocket

\* the commands written on a socket so far
CommandsSent(s) ==
    Len(SelectSeq(sent[s], LAMBDA m : m # AuthLine /\ m # QuitLine))

\* send_command whose guard of lines 43-45 logs but returns True
send_command_reports_success(message) ==
    /\ main.pc = "idle"
    /\ UNCHANGED <<server_socket, is_connected, should_receive, telemetry_data,
                   after_queue, shown, rx, sock_state, wire, close_count, ui,
                   committed>>
    /\ IF send_refused
       THEN /\ log_command("ERROR: Not connected to server")
            /\ send_result' = "True"
            /\ UNCHANGED <<main, sent>>
       ELSE \/ /\ sock_state[server_socket] = "connected"
               /\ CommandsSent(server_socket) < budget.send
               /\ sent' = [sent EXCEPT ![server_socket] = Append(@, Framed(message))]
               /\ send_result' = "True"
               /\ log_command("Command sent")
               /\ UNCHANGED main
            \/ /\ log_command("ERROR sending command")
               /\ main' = [main EXCEPT !.pc = "s_failed"]
               /\ NoResult
               /\ UNCHANGED <<sent>>
    /\ UNCHANGED envvars

\* lines 41-54; the result of a failed write is returned by line 56
send_command(message) ==
    /\ main.pc = "idle"
    /\ UNCHANGED <<server_socket, is_connected, should_receive,
                   telemetry_data, after_queue, shown, rx, sock_state, wire,
                   close_count, ui, committed>>
    /\ IF send_refused
       THEN /\ log_command("ERROR: Not connected to server")
            /\ send_result' = "False"
            /\ UNCHANGED <<main, sent>>
       ELSE \/ \* line 51 succeeds; the caller logs (lines 536-545)
               /\ sock_state[server_socket] = "connected"
               /\ CommandsSent(server_socket) < budget.send
               /\ sent' = [sent EXCEPT ![server_socket] = Append(@, Framed(message))]
               /\ send_result' = "True"
               /\ log_command("Command sent")
               /\ UNCHANGED main
            \/ \* line 51 raises: line 54
               /\ log_command("ERROR sending command")
               /\ main' = [main EXCEPT !.pc = "s_failed"]
               /\ NoResult
               /\ UNCHANGED <<sent>>
    /\ UNCHANGED envvars

\* lines 55-56 without line 55: False is returned, disconnect is not called
send_failed_no_disconnect ==
    /\ main.pc = "s_failed"
    /\ main' = MainIdle
    /\ send_result' = "False"
    /\ NoLog
    /\ UNCHANGED <<server_socket, is_connected, should_receive, telemetry_data,
                   after_queue, shown, rx, netvars, ui, committed>>
    /\ UNCHANGED envvars

\* line 55: the failed send_command calls disconnect
send_failed ==
    /\ main.pc = "s_failed"
    /\ disconnect_begin("send")
    /\ UNCHANGED <<server_socket, is_connected, telemetry_data, after_queue,
                   shown, rx, netvars, ui, committed>>
    /\ UNCHANGED envvars

(***************************************************************************)
(* The Tk event loop: callbacks posted with after(0, ...) run on the main  *)
(* thread, one at a time, in the order they were posted.                   *)
(***************************************************************************)
\* update_telemetry_display reads the fields in this order
\* (lines 472, 475, 495, 499, 515)
DisplayOrder == <<"time", "direction", "speed", "battery", "temperature">>

DisplayPc(k) == <<"u_time", "u_direction", "u_speed", "u_battery", "u_temperature">>[k]

\* one field read of update_telemetry_display on the main thread for the
\* callback posted by thread t for its line n; the last read completes the
\* display
display_read(k, t, n) ==
    /\ shown' = [shown EXCEPT ![DisplayOrder[k]] = telemetry_data[DisplayOrder[k]]]
    /\ IF k < Len(DisplayOrder)
       THEN /\ main' = [MainIdle EXCEPT !.pc = DisplayPc(k + 1), !.t = t, !.n = n]
            /\ UNCHANGED ui
       ELSE /\ main' = MainIdle
            /\ ui' = Append(ui, Effect("main", "display", shown', t, n))

\* the callback at the head of the queue starts
run_callback ==
    /\ main.pc = "idle"
    /\ after_queue # <<>>
    /\ after_queue' = Tail(after_queue)
    /\ UNCHANGED <<server_socket, is_connected, telemetry_data, rx, netvars,
                   committed>>
    /\ LET cb == Head(after_queue) IN
       CASE cb.fn = "disconnect" ->
              \* line 155 / line 198
              /\ disconnect_begin("idle")
              /\ UNCHANGED <<shown, ui>>
         [] cb.fn = "log_closed" ->
              \* line 154
              /\ ui' = Append(ui, Effect("main", "log", "Server closed connection", cb.t, cb.n))
              /\ NoLog
              /\ NoResult
              /\ UNCHANGED <<main, shown, should_receive>>
         [] cb.fn = "log_error" ->
              \* line 197: the lambda reads the handler's variable e, which is
              \* unbound once the thread has left the except block (NameError)
              /\ ui' = IF rx[cb.t].pc = "unbind"
                       THEN Append(ui, Effect("main", "log", "ERROR receiving data", cb.t, cb.n))
                       ELSE ui
              /\ NoLog
              /\ NoResult
              /\ UNCHANGED <<main, shown, should_receive>>
         [] cb.fn = "log_server" ->
              \* line 193
              /\ ui' = Append(ui, Effect("main", "server", cb.msg, cb.t, cb.n))
              /\ NoLog
              /\ NoResult
              /\ UNCHANGED <<main, shown, should_receive>>
         [] cb.fn = "update_display" ->
              \* line 180
              /\ display_read(1, cb.t, cb.n)
              /\ NoLog
              /\ NoResult
              /\ UNCHANGED <<should_receive>>
    /\ UNCHANGED envvars

\* update_telemetry_display continues (lines 475-526)
update_telemetry_display ==
    /\ \E k \in 2..Len(DisplayOrder) :
          /\ main.pc = DisplayPc(k)
          /\ display_read(k, main.t, main.n)
    /\ NoLog
    /\ NoResult
    /\ UNCHANGED <<server_socket, is_connected, should_receive,
                   telemetry_data, after_queue, rx, netvars, committed>>
    /\ UNCHANGED envvars

(***************************************************************************)
(* receive_loop (lines 145-199), one thread per successful connect.        *)
(***************************************************************************)
\* the thread has left receive_loop: its locals are gone; exc records why
Ended(t, cause) ==
    [IdleThread EXCEPT !.pc = "done", !.exc = cause, !.n = rx[t].n]

\* the handler of lines 195-199 is entered with the cause in exc
Raise(t, cause) == [rx[t] EXCEPT !.pc = "except", !.exc = cause]

\* line 148, first operand
receive_while(t) ==
    /\ rx[t].pc = "while"
    /\ rx' = [rx EXCEPT ![t] = IF should_receive THEN [rx[t] EXCEPT !.pc = "while2"]
                                ELSE Ended(t, "stopped")]
    /\ UNCHANGED <<server_socket, is_connected, should_receive, telemetry_data,
                   after_queue, main, shown, netvars, ui, last_log, committed, send_result>>
    /\ UNCHANGED envvars

\* line 148, second operand
receive_while_connected(t) ==
    /\ rx[t].pc = "while2"
    /\ rx' = [rx EXCEPT ![t] = IF is_connected THEN [rx[t] EXCEPT !.pc = "recv"]
                                ELSE Ended(t, "stopped")]
    /\ UNCHANGED <<server_socket, is_connected, should_receive, telemetry_data,
                   after_queue, main, shown, netvars, ui, last_log, committed, send_result>>
    /\ UNCHANGED envvars

\* line 150: self.server_socket is read and recv is called on it; recv on
\* None, on a closed socket or on one not yet connected raises at once
receive_call(t) ==
    /\ rx[t].pc = "recv"
    /\ rx' = [rx EXCEPT ![t] =
                IF server_socket = NoSocket THEN Raise(t, "no_socket")
                ELSE IF sock_state[server_socket] # "connected"
                     THEN Raise(t, "recv")
                ELSE [rx[t] EXCEPT !.pc = "blocked", !.sock = server_socket]]
    /\ UNCHANGED <<server_socket, is_connected, should_receive, telemetry_data,
                   after_queue, main, shown, netvars, ui, last_log, committed, send_result>>
    /\ UNCHANGED envvars

\* line 161: the inner loop goes on while the buffer holds a newline, and
\* the outer loop is next when it does not
LoopPc(buf) == IF Contains(buf, <<NL>>) THEN "lines" ELSE "while"

\* the lengths recv(1024) may return when `available` bytes are unread
ChunkSizes(available) ==
    IF available = 0 THEN {}
    ELSE IF chunking = "any" THEN 1..Min(available, RecvSize)
    ELSE {Min(available, RecvSize)}

\* line 150: the blocked recv returns bytes, which are decoded
receive_data(t) ==
    /\ rx[t].pc = "blocked"
    /\ \E k \in ChunkSizes(Len(wire[rx[t].sock])) :
          LET data == SubSeq(wire[rx[t].sock], 1, k) IN
          /\ wire' = [wire EXCEPT ![rx[t].sock] = SubSeq(@, k + 1, Len(@))]
          /\ rx' = [rx EXCEPT ![t] =
                      IF DecodeOk(data)
                      THEN [rx[t] EXCEPT !.pc = LoopPc(rx[t].buffer \o Decode(data)),
                                         !.buffer = @ \o Decode(data)]
                      ELSE Raise(t, "decode")]
    /\ UNCHANGED <<server_socket, is_connected, should_receive, telemetry_data,
                   after_queue, main, shown, sock_state, sent, close_count, ui,
                   last_log, committed, send_result>>
    /\ UNCHANGED envvars

\* lines 152-156 without the break of line 156: the loop goes on reading
receive_closed_keeps_reading(t) ==
    /\ rx[t].pc = "blocked"
    /\ wire[rx[t].sock] = <<>>
    /\ after_queue' = after_queue \o
          <<Callback("log_closed", t, rx[t].n, <<>>),
            Callback("disconnect", t, rx[t].n, <<>>)>>
    /\ rx' = [rx EXCEPT ![t].pc = "while", ![t].exc = "closed"]
    /\ UNCHANGED <<server_socket, is_connected, should_receive, telemetry_data,
                   main, shown, netvars, ui, last_log, committed, send_result>>
    /\ UNCHANGED envvars

\* lines 152-156: the peer has closed and everything it sent was read
receive_closed(t) ==
    /\ rx[t].pc = "blocked"
    /\ wire[rx[t].sock] = <<>>
    /\ after_queue' = after_queue \o
          <<Callback("log_closed", t, rx[t].n, <<>>),
            Callback("disconnect", t, rx[t].n, <<>>)>>
    /\ rx' = [rx EXCEPT ![t] = Ended(t, "closed")]
    /\ UNCHANGED <<server_socket, is_connected, should_receive, telemetry_data,
                   main, shown, netvars, ui, last_log, committed, send_result>>
    /\ UNCHANGED envvars

\* line 150: the blocked recv raises (reset by the peer, or the socket was
\* closed under it)
receive_error(t) ==
    /\ rx[t].pc = "blocked"
    /\ rx' = [rx EXCEPT ![t] = Raise(t, "recv")]
    /\ UNCHANGED <<server_socket, is_connected, should_receive, telemetry_data,
                   after_queue, main, shown, netvars, ui, last_log, committed, send_result>>
    /\ UNCHANGED envvars

\* lines 162-193: one iteration of the inner loop
receive_line(t) ==
    /\ rx[t].pc = "lines"
    /\ UNCHANGED <<server_socket, is_connected, should_receive, main, shown,
                   netvars, last_log, send_result>>
    /\ LET line == Strip(Split1(rx[t].buffer, NL)[1], Whitespace)
           rest == Split1(rx[t].buffer, NL)[2]
           n    == rx[t].n + 1
           me   == [rx[t] EXCEPT !.buffer = rest, !.line = line, !.n = n,
                                 !.pc = LoopPc(rest)]
           kind == Classify(line)
       IN
       CASE kind = "empty" ->
              /\ rx' = [rx EXCEPT ![t] = me]
              /\ UNCHANGED <<telemetry_data, after_queue, ui, committed>>
         [] kind = "telemetry" ->
              \* lines 167-168
              /\ rx' = [rx EXCEPT ![t] =
                          IF DictOk(TelemetryPairs(line))
                          THEN [me EXCEPT !.pc = "w_speed",
                                          !.telemetry = TelemetryPairs(line)]
                          ELSE [me EXCEPT !.pc = "except", !.exc = "parse"]]
              /\ UNCHANGED <<telemetry_data, after_queue, ui, committed>>
         [] kind \in {"dir", "speed"} ->
              \* lines 182-184, 187-189: the display is updated by this thread
              IF AckOk(line)
              THEN /\ telemetry_data' =
                         [telemetry_data EXCEPT
                            ![IF kind = "dir" THEN "direction" ELSE "speed"] =
                                AckValue(line)]
                   /\ ui' = Append(ui, Effect("receive", "display", telemetry_data', t, n))
                   /\ committed' = committed \cup {telemetry_data'}
                   /\ rx' = [rx EXCEPT ![t] = me]
                   /\ UNCHANGED after_queue
              ELSE /\ rx' = [rx EXCEPT ![t] =
                               [me EXCEPT !.pc = "except", !.exc = "index"]]
                   /\ UNCHANGED <<telemetry_data, after_queue, ui, committed>>
         [] kind = "log" ->
              \* line 193
              /\ after_queue' = Append(after_queue, Callback("log_server", t, n, line))
              /\ rx' = [rx EXCEPT ![t] = me]
              /\ UNCHANGED <<telemetry_data, ui, committed>>
    /\ UNCHANGED envvars

WritePc(k) == <<"w_speed", "w_battery", "w_time", "w_temperature", "w_direction">>[k]

\* lines 171-180 with get(key, <the value held>) in place of the defaults:
\* a key absent from the line leaves its field as it is
receive_store_keeps_absent(t) ==
    /\ \E k \in 1..Len(TelemetryFields) :
          /\ rx[t].pc = WritePc(k)
          /\ telemetry_data' =
                [telemetry_data EXCEPT ![TelemetryFields[k]] =
                    DictGet(rx[t].telemetry, KeyOfField(TelemetryFields[k]), @)]
          /\ IF k < Len(TelemetryFields)
             THEN /\ rx' = [rx EXCEPT ![t].pc = WritePc(k + 1)]
                  /\ UNCHANGED <<ui, after_queue, committed>>
             ELSE /\ rx' = [rx EXCEPT ![t].pc = LoopPc(rx[t].buffer)]
                  /\ ui' = Append(ui, Effect("receive", "log",
                                             "Telemetry received", t, rx[t].n))
                  /\ after_queue' = Append(after_queue,
                                           Callback("update_display", t, rx[t].n, <<>>))
                  /\ committed' = committed \cup {telemetry_data'}
    /\ UNCHANGED <<server_socket, is_connected, should_receive, main, shown,
                   netvars, last_log, send_result>>
    /\ UNCHANGED envvars

\* lines 171-180: the five assignments, one at a time; after the last one
\* the thread logs (line 177) and posts the display update (line 180)
receive_store(t) ==
    /\ \E k \in 1..Len(TelemetryFields) :
          /\ rx[t].pc = WritePc(k)
          /\ telemetry_data' =
                [telemetry_data EXCEPT ![TelemetryFields[k]] =
                    TelemetryValue(rx[t].telemetry, TelemetryFields[k])]
          /\ IF k < Len(TelemetryFields)
             THEN /\ rx' = [rx EXCEPT ![t].pc = WritePc(k + 1)]
                  /\ UNCHANGED <<ui, after_queue, committed>>
             ELSE /\ rx' = [rx EXCEPT ![t].pc = LoopPc(rx[t].buffer)]
                  /\ ui' = Append(ui, Effect("receive", "log", "Telemetry received", t, rx[t].n))
                  /\ after_queue' = Append(after_queue,
                                           Callback("update_display", t, rx[t].n, <<>>))
                  /\ committed' = committed \cup {telemetry_data'}
    /\ UNCHANGED <<server_socket, is_connected, should_receive, main, shown,
                   netvars, last_log, send_result>>
    /\ UNCHANGED envvars

\* the handler of lines 195-199 without lines 196-198: it only breaks
receive_except_silent(t) ==
    /\ rx[t].pc = "except"
    /\ rx' = [rx EXCEPT ![t] = Ended(t, rx[t].exc)]
    /\ UNCHANGED <<server_socket, is_connected, should_receive, telemetry_data,
                   after_queue, main, shown, netvars, ui, last_log, committed,
                   send_result>>
    /\ UNCHANGED envvars

\* lines 195-198: the handler reads the flag and posts the two callbacks
receive_except(t) ==
    /\ rx[t].pc = "except"
    /\ IF should_receive
       THEN /\ after_queue' = after_queue \o
                  <<Callback("log_error", t, rx[t].n, <<>>),
                    Callback("disconnect", t, rx[t].n, <<>>)>>
            /\ rx' = [rx EXCEPT ![t].pc = "unbind"]
       ELSE /\ rx' = [rx EXCEPT ![t] = Ended(t, rx[t].exc)]
            /\ UNCHANGED after_queue
    /\ UNCHANGED <<server_socket, is_connected, should_receive, telemetry_data,
                   main, shown, netvars, ui, last_log, committed, send_result>>
    /\ UNCHANGED envvars

\* line 199: the except block ends (e is unbound) and the loop is left
receive_break(t) ==
    /\ rx[t].pc = "unbind"
    /\ rx' = [rx EXCEPT ![t] = Ended(t, rx[t].exc)]
    /\ UNCHANGED <<server_socket, is_connected, should_receive, telemetry_data,
                   after_queue, main, shown, netvars, ui, last_log, committed, send_result>>
    /\ UNCHANGED envvars

(***************************************************************************)
(* The system.                                                             *)
(***************************************************************************)
MainStep ==
    \/ connect
    \/ connect_socket
    \/ connect_auth
    \/ connect_state
    \/ start_receive_thread
    \/ disconnect
    \/ disconnect_quit
    \/ disconnect_cleanup
    \/ disconnect_state
    \/ \E message \in budget.commands : send_command(message)
    \/ send_failed
    \/ run_callback
    \/ update_telemetry_display

ReceiveStep(t) ==
    \/ receive_while(t)
    \/ receive_while_connected(t)
    \/ receive_call(t)
    \/ receive_data(t)
    \/ receive_closed(t)
    \/ receive_error(t)
    \/ receive_line(t)
    \/ receive_store(t)
    \/ receive_except(t)
    \/ receive_break(t)

Next == MainStep \/ \E t \in Threads : ReceiveStep(t)

Spec == Init /\ [][Next]_vars

SpecStream == InitStream /\ [][Next]_vars

(***************************************************************************)
(* Fairness: the event loop runs the posted callbacks and carries every    *)
(* started operation of the main thread to its end.  The caller, the       *)
(* network and the receive threads are not obliged to do anything.         *)
(***************************************************************************)
EventLoop ==
    \/ connect_socket
    \/ connect_auth
    \/ connect_state
    \/ start_receive_thread
    \/ disconnect_quit
    \/ disconnect_cleanup
    \/ disconnect_state
    \/ send_failed
    \/ run_callback
    \/ update_telemetry_display

Fairness == WF_vars(EventLoop)

FairSpec == Spec /\ Fairness

FairSpecStream == SpecStream /\ Fairness

(***************************************************************************)
(* Vocabulary of the properties.                                           *)
(***************************************************************************)
\* a step of the main thread (every step of a receive thread changes rx;
\* of the main thread's steps only start_receive_thread does)
MainThreadStep == rx' = rx \/ main.pc = "c_start"

\* the main thread has just returned from disconnect()
DisconnectReturned ==
    /\ main.pc = "idle"
    /\ last_log \in {"Disconnected from server", "Already disconnected"}

\* the connection made on socket s reached Connected (its thread was started)
WasConnected(s) == rx[s].pc # "unborn"

(***************************************************************************)
(* C1: two disconnect() calls on a Connected session, in a row or with a   *)
(* receive loop running beside them, close the socket exactly once; the    *)
(* second call finds the session Disconnected and touches no socket; the   *)
(* state is Disconnected when they have returned.                          *)
(***************************************************************************)
C1_ClosedOnceAndDisconnected ==
    /\ \A s \in Sockets : close_count[s] <= 1
    /\ DisconnectReturned =>
          /\ ~is_connected
          /\ server_socket = NoSocket
          /\ \A s \in Sockets :
                WasConnected(s) => sock_state[s] = "closed" /\ close_count[s] = 1

C1_SecondCallTouchesNothing ==
    (MainThreadStep /\ last_log' = "Already disconnected")
        => UNCHANGED <<server_socket, is_connected, should_receive, netvars>>

C1_DisconnectTwice ==
    [](C1_ClosedOnceAndDisconnected) /\ [][C1_SecondCallTouchesNothing]_vars

\* a second disconnect() has returned on a session that was Connected
C1_Witness ==
    /\ main.pc = "idle"
    /\ last_log = "Already disconnected"
    /\ \E s \in Sockets : WasConnected(s) /\ close_count[s] = 1

(***************************************************************************)
(* C2: the display never shows a half-updated record: the five values      *)
(* update_telemetry_display reads on the main thread are the snapshot as   *)
(* it stood before or after a whole line was applied, never a mix.         *)
(***************************************************************************)
C2_DisplayNeverTorn ==
    \A i \in 1..Len(ui) :
        (ui[i].op = "display" /\ ui[i].by = "main") => ui[i].msg \in committed

(***************************************************************************)
(* C3: a telemetry line with a pair that is not key=value is survived: the *)
(* pair is skipped, the rest of the line is applied and the loop keeps     *)
(* running.  In particular building the dictionary of line 168 never       *)
(* raises, so no receive thread is ever in, or ended by, the handler of    *)
(* line 195 because of a telemetry line.                                   *)
(***************************************************************************)
C3_MalformedPairSkipped == \A t \in Threads : rx[t].exc # "parse"

(***************************************************************************)
(* C4: a zero-length read by a receive thread is followed by exactly one   *)
(* "Server closed connection" log entry of that thread and by the session  *)
(* becoming Disconnected, the "Disconnected from server" event being       *)
(* emitted exactly when the state changes from Connected to Disconnected;  *)
(* the thread puts nothing on the display after its log entry.             *)
(***************************************************************************)
\* the positions in ui of thread t's "Server closed connection" entries
ClosedLog(t) ==
    {i \in 1..Len(ui) : /\ ui[i].op = "log"
                        /\ ui[i].msg = "Server closed connection"
                        /\ ui[i].t = t}

\* thread t has read zero bytes
ReadEndOfStream(t) == rx[t].exc = "closed"

\* the log entry of thread t's zero-length read is posted and has not run
ClosedLogPosted(t) ==
    \E i \in 1..Len(after_queue) :
        after_queue[i].fn = "log_closed" /\ after_queue[i].t = t

C4_OneClosedLogAndNothingAfter ==
    \A t \in Threads :
        /\ Cardinality(ClosedLog(t)) <= 1
        /\ ReadEndOfStream(t) <=> (ClosedLog(t) # {} \/ ClosedLogPosted(t))
        /\ ReadEndOfStream(t) => rx[t].pc = "done"
        /\ \A i \in ClosedLog(t) : \A j \in (i + 1)..Len(ui) : ui[j].t # t

C4_OneTransition ==
    (is_connected /\ ~is_connected')
        <=> (MainThreadStep /\ last_log' = "Disconnected from server")

C4_EndOfStreamDisconnects ==
    /\ []C4_OneClosedLogAndNothingAfter
    /\ [][C4_OneTransition]_vars
    /\ \A t \in Threads :
          ClosedLogPosted(t) ~> (~is_connected /\ Cardinality(ClosedLog(t)) = 1)

\* a zero-length read has been logged and the session is Disconnected
C4_Witness ==
    \E t \in Threads :
        /\ ReadEndOfStream(t)
        /\ Cardinality(ClosedLog(t)) = 1
        /\ ~is_connected
        /\ close_count[t] = 1
        /\ main.pc = "idle"
        /\ after_queue = <<>>

(***************************************************************************)
(* C5: a session is never stuck Connected after a failure of its receive   *)
(* loop: whenever the session is Connected, connect() is not in progress,  *)
(* no receive thread is running and a receive thread was ended by a        *)
(* failure (end of stream, a read error, or an exception raised while a    *)
(* line was processed), the session eventually becomes Disconnected.       *)
(***************************************************************************)
\* the ways a receive thread fails: end of stream (line 152), recv raising
\* (line 150), decode raising (line 150), dict raising (line 168), [1]
\* raising (lines 182, 187), recv called on None (line 150)
Failures == {"closed", "recv", "decode", "parse", "index", "no_socket"}

FailedThread(t) == rx[t].pc = "done" /\ rx[t].exc \in Failures

ReceiveLoopAlive == \E t \in Threads : rx[t].pc \notin {"unborn", "done"}

Connecting == main.pc \in {"c_connect", "c_auth", "c_set", "c_start"}

ConnectedWithoutLoop ==
    /\ is_connected
    /\ ~Connecting
    /\ ~ReceiveLoopAlive
    /\ \E t \in Threads : FailedThread(t)

C5_FailureDisconnects == ConnectedWithoutLoop ~> ~is_connected

\* a thread failed on a line it could not process and the disconnect it
\* posted has run to its end
C5_Witness ==
    \E t \in Threads :
        /\ FailedThread(t)
        /\ rx[t].exc \in {"parse", "decode"}
        /\ ~is_connected
        /\ close_count[t] = 1
        /\ main.pc = "idle"
        /\ after_queue = <<>>

(***************************************************************************)
(* C6: send_command called while the session is not Connected returns      *)
(* False and does nothing to any socket: nothing is written, closed or     *)
(* opened, and the handle and the connection state are as they were.       *)
(***************************************************************************)
\* the main thread runs the body of send_command
SendCommandStep ==
    /\ MainThreadStep
    /\ main.pc = "idle"
    /\ last_log' \in {"ERROR: Not connected to server", "Command sent",
                      "ERROR sending command"}

C6_RefusedSendStep ==
    (SendCommandStep /\ ~is_connected) =>
        /\ send_result' = "False"
        /\ main' = MainIdle
        /\ UNCHANGED <<server_socket, is_connected, should_receive, netvars>>

C6_SendWhileDisconnected == [][C6_RefusedSendStep]_vars

\* send_command has just returned False on a Disconnected session that was
\* Connected before
C6_Witness ==
    /\ last_log = "ERROR: Not connected to server"
    /\ send_result = "False"
    /\ ~is_connected
    /\ server_socket = NoSocket
    /\ \E s \in Sockets : close_count[s] = 1 /\ sent[s] # <<>>

(***************************************************************************)
(* C7: however the bytes of a connection are cut into reads, the receive   *)
(* loop yields the same complete lines in the same order, namely the lines *)
(* of the whole stream, and keeps the text after the last newline: no way  *)
(* of cutting makes a read fail, the n-th line a thread processes is the   *)
(* n-th line of the stream, and what is buffered and what is unread make   *)
(* up the rest of the stream.                                              *)
(***************************************************************************)
\* the text of everything the server sends on the connection of thread t
StreamText(t) == Decode(ScriptOf(script, t))

\* the text of the stream after its first n lines
RECURSIVE AfterLines(_, _)
AfterLines(text, n) ==
    IF n = 0 THEN text ELSE AfterLines(Split1(text, NL)[2], n - 1)

C7_SameLinesInAnyChunking ==
    \A t \in Threads :
        /\ rx[t].exc # "decode"
        /\ rx[t].n <= Len(BufferLines(StreamText(t)))
        /\ (rx[t].pc \notin {"unborn", "done"} /\ rx[t].n > 0)
              => rx[t].line = BufferLines(StreamText(t))[rx[t].n]
        /\ (rx[t].pc \in {"while", "while2", "recv", "lines"} /\ DecodeOk(wire[t]))
              => rx[t].buffer \o Decode(wire[t]) = AfterLines(StreamText(t), rx[t].n)

(***************************************************************************)
(* C8: the display (the log box and the telemetry labels) is only touched  *)
(* by the main thread: every log entry and every display update is made    *)
(* by the main thread, none by a receive thread.                           *)
(***************************************************************************)
C8_DisplayOnlyFromMainThread == \A i \in 1..Len(ui) : ui[i].by = "main"

(***************************************************************************)
(* C9: the effects of received lines reach the display in the order the    *)
(* lines were parsed and at most once: of two lines of one receive thread  *)
(* the effect of the earlier one is never made after an effect of the      *)
(* later one, and no line has the same effect made twice.                  *)
(***************************************************************************)
\* an effect of a received line: its log entry or its display update
LineEffect(e) ==
    \/ e.op \in {"server", "display"}
    \/ e.op = "log" /\ e.msg = "Telemetry received"

C9_AtMostOnce ==
    \A i, j \in 1..Len(ui) :
        (i < j /\ LineEffect(ui[i]) /\ LineEffect(ui[j])
           /\ ui[i].t = ui[j].t /\ ui[i].n = ui[j].n)
        => ui[i].op # ui[j].op

C9_InParseOrder ==
    \A i, j \in 1..Len(ui) :
        (i < j /\ LineEffect(ui[i]) /\ LineEffect(ui[j]) /\ ui[i].t = ui[j].t)
        => ui[i].n <= ui[j].n

C9_OrderedAtMostOnce == C9_InParseOrder /\ C9_AtMostOnce

(***************************************************************************)
(* C10: when connect() fails, at socket creation, at the connection or at  *)
(* the AUTH write, it returns with the socket closed and the handle        *)
(* cleared, the session Disconnected, no receive thread started for the    *)
(* socket, and no other socket opened: there is no second attempt.         *)
(***************************************************************************)
ConnectErrors ==
    {"ERROR: Connection timeout", "ERROR: Connection refused", "ERROR connecting"}

\* the main thread runs one of the handlers of lines 90-98
ConnectFailedStep ==
    /\ MainThreadStep
    /\ main.pc \in {"idle", "c_connect", "c_auth"}
    /\ last_log' \in ConnectErrors

C10_FailedConnectStep ==
    ConnectFailedStep =>
        /\ main' = MainIdle
        /\ server_socket' = NoSocket
        /\ ~is_connected'
        /\ UNCHANGED <<should_receive, sent, after_queue>>
        /\ \A s \in Sockets :
              IF s = server_socket
              THEN /\ sock_state'[s] = "closed"
                   /\ close_count'[s] = 1
                   /\ rx'[s].pc = "unborn"
              ELSE sock_state'[s] = sock_state[s]

C10_FailedConnectReleases == [][C10_FailedConnectStep]_vars

\* a connection was made, the AUTH write failed and connect() has returned
C10_Witness ==
    /\ main.pc = "idle"
    /\ last_log = "ERROR connecting"
    /\ server_socket = NoSocket
    /\ ~is_connected
    /\ \E s \in Sockets :
          /\ sock_state[s] = "closed"
          /\ wire[s] # <<>>
          /\ sent[s] = <<>>
          /\ rx[s].pc = "unborn"

(***************************************************************************)
(* C11: once disconnect() has cleared should_receive, a receive thread     *)
(* leaves silently whatever its read returns: while the flag is clear no   *)
(* receive thread posts an error entry, a "Server closed connection"       *)
(* entry or a disconnect request.                                          *)
(***************************************************************************)
TeardownCallbacks == {"log_closed", "log_error", "disconnect"}

\* the callbacks this step appends to the event queue
Posted ==
    {after_queue'[i] : i \in (Len(after_queue) + 1)..Len(after_queue')}

C11_NoTeardownPostedStep ==
    (~should_receive /\ ~MainThreadStep)
        => \A cb \in Posted : cb.fn \notin TeardownCallbacks

C11_SilentAfterFlagCleared == [][C11_NoTeardownPostedStep]_vars

(***************************************************************************)
(* C12: a send_command that returns True has written exactly once, on the  *)
(* current socket: the command followed by one newline when it does not    *)
(* end in one, the command as it is when it does; nothing else is written  *)
(* on any socket by the call.                                              *)
(***************************************************************************)
\* message ends in a newline
EndsInNewline(message) == message # <<>> /\ message[Len(message)] = NL

\* what the call must write for message
WirePayload(message) ==
    IF EndsInNewline(message) THEN message ELSE message \o <<NL>>

\* the messages whose payload is the last write on socket s
WrittenLast(s) ==
    {message \in Commands :
        sent'[s] = Append(sent[s], WirePayload(message))}

C12_SuccessfulSendStep ==
    (SendCommandStep /\ send_result' = "True") =>
        /\ is_connected
        /\ WrittenLast(server_socket) # {}
        /\ \A s \in Sockets \ {server_socket} : sent'[s] = sent[s]
        /\ UNCHANGED <<server_socket, is_connected, sock_state, close_count>>

C12_OneFramedWrite == [][C12_SuccessfulSendStep]_vars

\* "SPEED UP\n" has just been written as it is, after the AUTH line
C12_Witness ==
    /\ send_result = "True"
    /\ last_log = "Command sent"
    /\ \E s \in Sockets : sent[s] = <<AuthLine, CmdSpeedUpLine>>

(***************************************************************************)
(* C13: when the write of send_command fails on a Connected session, the   *)
(* failure is logged and nothing is written for the command; the call      *)
(* then writes at most the QUIT line, and it returns False with the        *)
(* session Disconnected and every socket closed; the call always gets      *)
(* there.                                                                  *)
(***************************************************************************)
\* send_command is past its failed write (lines 53-56)
SendFailing == main.pc = "s_failed" \/ main.ret = "send"

C13_FailedSendStep ==
    /\ (SendCommandStep /\ last_log' = "ERROR sending command")
          => (is_connected /\ sent' = sent /\ main'.pc = "s_failed")
    /\ (SendFailing /\ MainThreadStep)
          => \/ sent' = sent
             \/ sent' = [sent EXCEPT ![server_socket] = Append(@, QuitLine)]
    /\ (SendFailing /\ MainThreadStep /\ main'.pc = "idle")
          => /\ send_result' = "False"
             /\ ~is_connected'
             /\ server_socket' = NoSocket
             /\ \A s \in Sockets : sock_state'[s] # "connected"

C13_FailedSendDisconnects ==
    /\ [][C13_FailedSendStep]_vars
    /\ (main.pc = "s_failed")
          ~> (main.pc = "idle" /\ send_result = "False" /\ ~is_connected)

\* send_command has returned False after a failed write; the session is
\* Disconnected and only the AUTH line was ever written on the socket
C13_Witness ==
    /\ main.pc = "idle"
    /\ send_result = "False"
    /\ last_log = "Disconnected from server"
    /\ ~is_connected
    /\ \E s \in Sockets : sock_state[s] = "closed" /\ sent[s] = <<AuthLine>>

(***************************************************************************)
(* C14: when a receive thread has applied a whole telemetry line, the      *)
(* snapshot is the record of that line alone: every field whose key is in  *)
(* the line has the line's value, every other field has its default        *)
(* ("0.0" for speed, battery and temperature, "N" for direction, the       *)
(* current time for time), whatever the snapshot held before.              *)
(***************************************************************************)
SnapshotFields == {"speed", "battery", "time", "temperature", "direction"}

FieldKey(field) ==
    CASE field = "speed" -> <<"s", "p", "e", "e", "d">>
      [] field = "battery" -> <<"b", "a", "t", "t", "e", "r", "y">>
      [] field = "time" -> <<"t", "s">>
      [] field = "temperature" -> <<"t", "e", "m", "p">>
      [] field = "direction" -> <<"d", "i", "r">>

FieldDefault(field) ==
    CASE field \in {"speed", "battery", "temperature"} -> <<"0", ".", "0">>
      [] field = "direction" -> <<"N">>
      [] field = "time" -> NowText

\* the value the line gives to the field: that of the last pair with the
\* field's key, the default when there is none
LineValue(line, field) ==
    LET pairs == TelemetryPairs(line)
        hits  == {i \in 1..Len(pairs) : pairs[i][1] = FieldKey(field)}
    IN  IF hits = {} THEN FieldDefault(field)
        ELSE pairs[CHOOSE i \in hits : \A j \in hits : j <= i][2]

\* thread t makes the last of the five assignments of its line
LineApplied(t) == rx[t].pc = "w_direction" /\ rx'[t].pc # "w_direction"

C14_LineAppliedStep ==
    \A t \in Threads :
        LineApplied(t) =>
            telemetry_data' =
                [field \in SnapshotFields |-> LineValue(rx[t].line, field)]

C14_TelemetryOverwritesAll == [][C14_LineAppliedStep]_vars

\* "TLM temp=9" was applied after "TLM dir=S": the direction is N again
C14_Witness ==
    \E t \in Threads :
        /\ rx[t].n = 2
        /\ rx[t].pc \in {"while", "while2", "recv", "blocked"}
        /\ rx[t].line = <<"T", "L", "M", " ", "t", "e", "m", "p", "=", "9">>
        /\ telemetry_data.temperature = <<"9">>
        /\ telemetry_data.direction = <<"N">>

(***************************************************************************)
(* C15: a line is classified by the first test it passes, in the order     *)
(* telemetry marker, "dir", "speed", log, and an acknowledgement touches   *)
(* one field: the step that takes a line from the buffer changes no field  *)
(* when the line has the telemetry marker (its five assignments follow) or *)
(* has none of the three words, at most the direction when it has "dir"    *)
(* and no marker (also when it has "speed"), at most the speed when it has *)
(* "speed" and neither the marker nor "dir".                               *)
(***************************************************************************)
\* word occurs in the line
HasWord(line, word) ==
    \E i \in 1..Len(line) :
        /\ i + Len(word) - 1 <= Len(line)
        /\ SubSeq(line, i, i + Len(word) - 1) = word

\* the fields the line may change in the step that takes it from the buffer
MayChange(line) ==
    IF HasWord(line, <<"T", "L", "M">>) THEN {}
    ELSE IF HasWord(line, <<"d", "i", "r">>) THEN {"direction"}
    ELSE IF HasWord(line, <<"s", "p", "e", "e", "d">>) THEN {"speed"}
    ELSE {}

\* thread t takes a line from the buffer
LineTaken(t) == rx[t].pc = "lines" /\ rx'[t].n = rx[t].n + 1

C15_LineTakenStep ==
    \A t \in Threads :
        LineTaken(t) =>
            /\ \A field \in SnapshotFields \ MayChange(rx'[t].line) :
                    telemetry_data'[field] = telemetry_data[field]
            /\ HasWord(rx'[t].line, <<"T", "L", "M">>)
                    => rx'[t].pc \in {"w_speed", "except"}

C15_FirstMatchOverlay == [][C15_LineTakenStep]_vars

\* "speed dir=W" after "OK speed=5": the direction is W, the speed still 5
C15_Witness ==
    \E t \in Threads :
        /\ rx[t].n = 2
        /\ rx[t].line =
              <<"s", "p", "e", "e", "d", " ", "d", "i", "r", "=", "W">>
        /\ telemetry_data.direction = <<"W">>
        /\ telemetry_data.speed = <<"5">>

(***************************************************************************)
(* C16: a non-empty line with none of the telemetry marker, "dir" and      *)
(* "speed" gets exactly one log entry with its text: taking it from the    *)
(* buffer posts one entry for it and changes neither the snapshot nor the  *)
(* connection state nor ends the loop; the entry is posted or logged,      *)
(* once, ever after; and every posted entry is logged.                     *)
(***************************************************************************)
IsLogLine(line) ==
    /\ line # <<>>
    /\ ~HasWord(line, <<"T", "L", "M">>)
    /\ ~HasWord(line, <<"d", "i", "r">>)
    /\ ~HasWord(line, <<"s", "p", "e", "e", "d">>)

\* the log entries for line k of thread t with this text, waiting in the
\* event queue and made on the display
LogEntriesPosted(t, k, line) ==
    {i \in 1..Len(after_queue) :
        after_queue[i] = Callback("log_server", t, k, line)}

LogEntriesMade(t, k, line) ==
    {i \in 1..Len(ui) : /\ ui[i].op = "server"
                        /\ ui[i].by = "main"
                        /\ ui[i].t = t
                        /\ ui[i].n = k
                        /\ ui[i].msg = line}

C16_LogLineStep ==
    \A t \in Threads :
        (LineTaken(t) /\ IsLogLine(rx'[t].line)) =>
            /\ after_queue' =
                  Append(after_queue,
                         Callback("log_server", t, rx'[t].n, rx'[t].line))
            /\ rx'[t].pc \in {"lines", "while"}
            /\ UNCHANGED <<telemetry_data, is_connected, should_receive,
                           server_socket, netvars>>

C16_ExactlyOneEntry ==
    \A t \in Threads : \A k \in 1..rx[t].n :
        LET line == BufferLines(StreamText(t))[k] IN
        IsLogLine(line) =>
            Cardinality(LogEntriesPosted(t, k, line))
                + Cardinality(LogEntriesMade(t, k, line)) = 1

C16_LogLineLogged ==
    /\ [][C16_LogLineStep]_vars
    /\ []C16_ExactlyOneEntry
    /\ []<>(\A i \in 1..Len(after_queue) : after_queue[i].fn # "log_server")

\* "hello" is in the log, the session is Connected and the loop is reading
C16_Witness ==
    \E t \in Threads :
        /\ LogEntriesMade(t, 1, <<"h", "e", "l", "l", "o">>) # {}
        /\ is_connected
        /\ rx[t].pc = "blocked"
        /\ telemetry_data = InitialTelemetry

(***************************************************************************)
(* C17: disconnect() on a Connected session clears should_receive, then    *)
(* tries to write QUIT, then closes the socket, then sets the state to     *)
(* Disconnected: QUIT is written with the flag clear on a socket still     *)
(* open, the socket is closed with the flag clear and the state still      *)
(* Connected, the state is set with the flag clear and the socket closed   *)
(* and the handle cleared; and a disconnect() that has cleared the flag    *)
(* returns with the socket closed and the session Disconnected, whether    *)
(* the QUIT write succeeded or not.                                        *)
(***************************************************************************)
\* the main thread is in disconnect() after line 109
Disconnecting == main.pc \in {"d_quit", "d_close", "d_state"}

QuitWritten == \E s \in Sockets : sent'[s] = Append(sent[s], QuitLine)

SocketClosed == \E s \in Sockets : close_count'[s] = close_count[s] + 1

C17_DisconnectStep ==
    (MainThreadStep /\ Disconnecting) =>
        /\ ~should_receive /\ ~should_receive'
        /\ QuitWritten =>
              /\ sent'[server_socket] = Append(sent[server_socket], QuitLine)
              /\ sock_state[server_socket] = "connected"
              /\ is_connected /\ is_connected'
              /\ ~SocketClosed
        /\ SocketClosed =>
              /\ sock_state'[server_socket] = "closed"
              /\ server_socket' = NoSocket
              /\ is_connected /\ is_connected'
              /\ sent' = sent
        /\ (is_connected /\ ~is_connected') =>
              /\ server_socket = NoSocket
              /\ \A s \in Sockets : sock_state[s] # "connected"
              /\ UNCHANGED <<sent, close_count>>
              /\ main'.pc = "idle"

C17_DisconnectInOrder ==
    /\ [][C17_DisconnectStep]_vars
    /\ [][(is_connected /\ ~is_connected') => Disconnecting]_vars
    /\ Disconnecting
          ~> (main.pc = "idle" /\ ~is_connected /\ server_socket = NoSocket
                /\ \A s \in Sockets : sock_state[s] # "connected")

\* disconnect() has returned after a QUIT write that failed: only the AUTH
\* line was written, the socket is closed and the session Disconnected
C17_Witness ==
    /\ main.pc = "idle"
    /\ last_log = "Disconnected from server"
    /\ send_result = "none"
    /\ ~is_connected
    /\ server_socket = NoSocket
    /\ \E s \in Sockets :
          /\ sock_state[s] = "closed"
          /\ close_count[s] = 1
          /\ sent[s] = <<AuthLine>>

(***************************************************************************)
(* C18: a receive thread only ever reads the socket of the connection it   *)
(* was started for, and at most one receive thread is reading the current  *)
(* socket: a thread of an earlier connection is never in recv on the       *)
(* socket of a later one.                                                  *)
(***************************************************************************)
\* thread t is in recv on socket s
Reading(t, s) == rx[t].pc = "blocked" /\ rx[t].sock = s

C18_OneLoopPerConnection ==
    /\ \A t \in Threads : \A s \in Sockets : Reading(t, s) => s = t
    /\ Cardinality({t \in Threads : Reading(t, server_socket)}) <= 1

(***************************************************************************)
(* C19: a disconnect request posted by the receive thread of one           *)
(* connection never tears down a later connection: when the event loop     *)
(* runs the request of thread t, the thread connection t started, while    *)
(* the session is connected on another socket, the call leaves the         *)
(* session as it is.                                                       *)
(***************************************************************************)
\* the event loop runs the disconnect request posted by thread t
PostedDisconnectRuns(t) ==
    /\ main.pc = "idle"
    /\ after_queue # <<>>
    /\ Head(after_queue).fn = "disconnect"
    /\ Head(after_queue).t = t
    /\ after_queue' = Tail(after_queue)
    /\ MainThreadStep

C19_PostedDisconnectStep ==
    \A t \in Threads :
        (PostedDisconnectRuns(t) /\ is_connected /\ server_socket # t)
            => (main'.pc = "idle" /\ should_receive' = should_receive)

C19_LaterConnectionSurvives == [][C19_PostedDisconnectStep]_vars

(***************************************************************************)
(* C20: on every connection the AUTH line is the first data written: the   *)
(* session becomes connected and the receive thread is started only when   *)
(* the AUTH line, and nothing else, has been written on the socket, so     *)
(* whatever has been written on a socket begins with the AUTH line; and    *)
(* every write goes to a socket that is connected, never to a closed one.  *)
(***************************************************************************)
\* what has been written on socket s begins with the AUTH line
AuthWritten(s) == sent[s] # <<>> /\ Head(sent[s]) = AuthLine

C20_AuthWrittenFirst ==
    /\ \A s \in Sockets : sent[s] # <<>> => Head(sent[s]) = AuthLine
    /\ \A s \in Sockets : WasConnected(s) => AuthWritten(s)
    /\ (is_connected /\ server_socket # NoSocket) => AuthWritten(server_socket)

\* a step that writes on socket s writes one message on a connected socket
C20_WriteStep ==
    \A s \in Sockets :
        sent'[s] # sent[s]
            => /\ sock_state[s] = "connected"
               /\ Len(sent'[s]) = Len(sent[s]) + 1
               /\ SubSeq(sent'[s], 1, Len(sent[s])) = sent[s]

\* the steps of lines 80 and 142-143 find the AUTH line written, alone
C20_ConnectedStep ==
    /\ (~is_connected /\ is_connected')
            => (server_socket # NoSocket /\ sent[server_socket] = <<AuthLine>>)
    /\ \A s \in Sockets :
            (~WasConnected(s) /\ WasConnected(s)')
                => (is_connected /\ server_socket = s /\ sent[s] = <<AuthLine>>)

C20_AuthFirst ==
    /\ []C20_AuthWrittenFirst
    /\ [][C20_WriteStep /\ C20_ConnectedStep]_vars

\* both connections were used: AUTH, a command and QUIT were written on
\* each, in this order, and both sockets are closed
C20_Witness ==
    \A s \in Sockets :
        /\ sent[s] = <<AuthLine, Framed(CmdTurnLeft), QuitLine>>
        /\ sock_state[s] = "closed"

(***************************************************************************)
(* C21: in every state where neither connect nor disconnect is in          *)
(* progress, the three session variables agree: is_connected holds if and  *)
(* only if server_socket holds a socket, which is then open, and if and    *)
(* only if should_receive is set; a disconnected session has no socket     *)
(* handle and a cleared flag.                                              *)
(***************************************************************************)
\* the main thread is inside connect (lines 64-98) or inside disconnect
\* (lines 106-128)
CallInProgress ==
    main.pc \in {"c_connect", "c_auth", "c_set", "c_start",
                 "d_quit", "d_close", "d_state"}

\* server_socket holds a socket that has not been closed
HandleOpen ==
    /\ server_socket # NoSocket
    /\ sock_state[server_socket] = "connected"

C21_SessionVariablesAgree ==
    ~CallInProgress
        => /\ is_connected <=> server_socket # NoSocket
           /\ is_connected <=> HandleOpen
           /\ is_connected <=> should_receive

\* the session is connected for the second time, after a first connection
\* that was taken down, and no call is in progress
C21_Witness ==
    /\ ~CallInProgress
    /\ is_connected
    /\ server_socket = MaxConnects
    /\ should_receive
    /\ \A s \in Sockets :
            s # server_socket => (WasConnected(s) /\ sock_state[s] = "closed")

====
